---- MODULE Spec2Model ----
(***************************************************************************)
(* State-machine model of quickff's HessianFCCost (src/lib/cost.py): the   *)
(* least-squares cost chi^2(k) = 1/2 k^T A k - B^T k + 1/2 C, its refresh  *)
(* from the reference Hessian, the constraint builder and estimate().      *)
(*                                                                         *)
(* Numbers.  All reals are exact integers here.  Energies (force           *)
(* constants, bounds) are counted in units of 1e-4 Hartree, so that        *)
(* molmod's kjmol (3.8088e-4 Hartree) is the integer 4.  fun() halves two  *)
(* of its three summands; the model keeps 2*chi2 (chi2_2) so that the      *)
(* value stays an exact integer.                                           *)
(*                                                                         *)
(* Indices.  Python indices are kept 0-based (At(s, i) reads s[i]).        *)
(***************************************************************************)
EXTENDS Integers, Sequences, FiniteSets, TLC

\* ------------------------------------------------------------------ bounds
\* Largest number of internal coordinates (terms) of a generated system.
MaxTerms == 2
\* Largest number of cost evaluations the optimizer makes in one estimate.
MaxEvals == 2
\* Largest number of estimate() calls in one behaviour.
MaxCalls == 2
\* Number of atoms of the generated systems (ndofs = 3*natoms).
natoms == 1

\* molmod.units.kjmol in the model's energy unit (1e-4 Hartree).
kjmol == 4

\* ------------------------------------------------------- python sequences
Range(n) == 0 .. (n - 1)
At(s, i) == s[i + 1]
InRange(s, i) == i >= 0 /\ i < Len(s)
SetAt(s, i, v) == [s EXCEPT ![i + 1] = v]

\* ---------------------------------------------------------------- strings
\* A python str is the sequence of its characters; Ord is ord().
Ord(c) ==
    CASE c = "/" -> 47 [] c = "1" -> 49 [] c = "2" -> 50
      [] c = "a" -> 97 [] c = "b" -> 98 [] c = "d" -> 100 [] c = "e" -> 101
      [] c = "g" -> 103 [] c = "h" -> 104 [] c = "i" -> 105 [] c = "l" -> 108
      [] c = "n" -> 110 [] c = "o" -> 111 [] c = "r" -> 114

RECURSIVE StrLessFrom(_, _, _)
StrLessFrom(s, t, p) ==
    IF p > Len(t) THEN FALSE
    ELSE IF p > Len(s) THEN TRUE
    ELSE IF Ord(s[p]) < Ord(t[p]) THEN TRUE
    ELSE IF Ord(s[p]) > Ord(t[p]) THEN FALSE
    ELSE StrLessFrom(s, t, p + 1)

\* python's s < t on str: lexicographic by code point, a proper prefix first.
StrLess(s, t) == StrLessFrom(s, t, 1)

\* sorted(iterable of str), as a sequence; SortedDesc is the reversed order.
RECURSIVE SortedDesc(_)
SortedDesc(S) ==
    IF S = {} THEN << >>
    ELSE LET m == CHOOSE x \in S : \A y \in S \ {x} : StrLess(y, x)
         IN  <<m>> \o SortedDesc(S \ {m})

RECURSIVE SortedAsc(_)
SortedAsc(S) ==
    IF S = {} THEN << >>
    ELSE LET m == CHOOSE x \in S : \A y \in S \ {x} : StrLess(x, y)
         IN  <<m>> \o SortedAsc(S \ {m})

sorted(S) == SortedAsc(S)

\* sorted(self.model.val.vterms.keys()) and sorted(self.system.ics.keys())
SortedTermNames(terms) == sorted(DOMAIN terms)
SortedICNamesReversed(names) == SortedDesc(names)
SortedICNames(names) == sorted(names)

RECURSIVE FindSlash(_, _)
FindSlash(s, p) ==
    IF p > Len(s) THEN p
    ELSE IF s[p] = "/" THEN p
    ELSE FindSlash(s, p + 1)

\* s.split('/')[0]: the part before the first '/', all of s without one.
SplitHead(s) == SubSeq(s, 1, FindSlash(s, 1) - 1)

\* s.startswith(prefix)
startswith(s, prefix) ==
    /\ Len(s) >= Len(prefix)
    /\ SubSeq(s, 1, Len(prefix)) = prefix

Dihed == <<"d", "i", "h", "e", "d">>
BondKind == <<"b", "o", "n", "d">>
AngleKind == <<"a", "n", "g", "l", "e">>
DihedralKind == <<"d", "i", "h", "e", "d", "r", "a", "l">>

\* ---------------------------------------------------------------- numbers
RECURSIVE SumTo(_, _)
\* f[0] + ... + f[n-1] for an operator-free function f on Range(n)
SumTo(f, n) == IF n = 0 THEN 0 ELSE SumTo(f, n - 1) + f[n - 1]

\* np.zeros([n], float) and np.zeros([n, m], float)
zeros1(n) == [i \in 1 .. n |-> 0]
zeros2(n, m) == [i \in 1 .. n |-> [j \in 1 .. m |-> 0]]

\* a.reshape([n, n]) of a buffer of n*n numbers, row-major
reshape(buf, n) == [p \in 1 .. n |-> [q \in 1 .. n |-> buf[(p - 1) * n + q]]]
\* the buffer behind an n x n array
ravel(M, n) == [x \in 1 .. (n * n) |-> M[((x - 1) \div n) + 1][((x - 1) % n) + 1]]

MatAdd(X, Y) == [p \in DOMAIN X |-> [q \in DOMAIN X[p] |-> X[p][q] + Y[p][q]]]
MatSub(X, Y) == [p \in DOMAIN X |-> [q \in DOMAIN X[p] |-> X[p][q] - Y[p][q]]]
MatScale(c, X) == [p \in DOMAIN X |-> [q \in DOMAIN X[p] |-> c * X[p][q]]]

\* quickff.tools.matrix_squared_sum(X, Y): the sum over all entries of
\* X[p][q]*Y[p][q] (the Frobenius inner product).
matrix_squared_sum(X, Y) ==
    LET n == Len(X)
        row(p) == SumTo([q \in Range(n) |-> X[p][q + 1] * Y[p][q + 1]], n)
    IN  SumTo([p \in Range(n) |-> row(p + 1)], n)

\* ------------------------------------------------- collaborators (inputs)
ndofs == 3 * natoms
Dofs == 1 .. ndofs

Name(kind, id) == kind \o <<"/", id>>

\* The internal-coordinate names systems are generated from.
ICNamePool ==
    { Name(BondKind, "1"), Name(BondKind, "2"), Name(Dihed, "1"),
      Name(DihedralKind, "1") }

\* A matrix with entry v at the listed (p, q) places and 0 elsewhere.
Sparse(places, v) ==
    [p \in Dofs |-> [q \in Dofs |-> IF <<p, q>> \in places THEN v ELSE 0]]

\* Model.val.vterms[icname]: the list of terms of one internal coordinate;
\* a term is known by its internal coordinate and its place in the list.
TermsOf(icname) ==
    [t \in 1 .. (IF icname \in {Name(BondKind, "1"), Name(Dihed, "1")} THEN 2 ELSE 1)
        |-> [ic |-> icname, no |-> t]]

\* The Hessian of a term at force constant 1.
UnitHessian(vterm) ==
    CASE vterm.ic = Name(BondKind, "1") /\ vterm.no = 1 -> Sparse({<<1, 1>>}, 2)
      [] vterm.ic = Name(BondKind, "1") /\ vterm.no = 2 -> Sparse({<<2, 2>>}, 1)
      [] vterm.ic = Name(BondKind, "2") ->
           [p \in Dofs |-> [q \in Dofs |-> IF p = q THEN 1 ELSE 0]]
      [] vterm.ic = Name(Dihed, "1") /\ vterm.no = 1 -> Sparse({<<3, 3>>}, 1)
      [] vterm.ic = Name(Dihed, "1") /\ vterm.no = 2 -> Sparse({<<1, 3>>, <<3, 1>>}, 1)
      [] vterm.ic = Name(DihedralKind, "1") -> Sparse({<<2, 3>>, <<3, 2>>}, 2)

\* vterm.calc_hessian(coords, k): linear in k.
calc_hessian(vterm, k) == MatScale(k, UnitHessian(vterm))

\* Model.ei.calc_hessian(coords), reshaped to ndofs x ndofs.
calc_hessian_ei == [p \in Dofs |-> [q \in Dofs |-> IF p = q THEN 1 ELSE 0]]

\* Reference ab-initio Hessians (symmetric), as the stored buffer.
RefHessian(d) ==
    ravel([p \in Dofs |-> [q \in Dofs |-> IF p = q THEN d ELSE 1]], ndofs)
RefHessians == { RefHessian(5) }

\* The force constants stored in the Terms, and the values the optimizer
\* gives a coordinate: below, at and above the bounds 0 and 200*kjmol.
FcValues == {0, 3}
KValues == {-1, 0, 200 * kjmol, 200 * kjmol + 1}
Vectors(n, V) == IF n < 0 THEN {} ELSE [1 .. n -> V]

\* The values estimate(fixed=...) is called with: None, or a collection of
\* kind names.
None == [isNone |-> TRUE, items |-> {}]
Kinds(S) == [isNone |-> FALSE, items |-> S]
FixedChoices ==
    { None, Kinds({}), Kinds({BondKind}), Kinds({Dihed, AngleKind}) }

\* ------------------------------------------------------------------ state
VARIABLES
    ics,          \* system.ics.keys(): the internal-coordinate names
    vterms,       \* model.val.vterms: icname -> list of terms
    hess,         \* system.ref.hess: the stored buffer of the ab-initio Hessian
    contiguous,   \* whether reshape() of system.ref.hess is a view of the buffer
    fcs,          \* the Terms' force constants, as model.val.get_fcs() lists them
    A, B, C,      \* self._A, self._B, self._C
    pc,           \* position inside estimate(): idle when no call is running
    fixed,        \* estimate's argument
    kinit,        \* estimate's local
    constraints,  \* estimate's local
    x,            \* the optimizer's current point
    outcome,      \* how the last estimate call ended: none, running, returned, error
    result,       \* the vector the last estimate call returned
    fun_k,        \* argument of the last call of fun
    fun_out,      \* what the last call of fun gave
    cvals,        \* the constraint values at the optimizer's current point
    calls,        \* number of estimate calls started
    abc_call,     \* the estimate call that last assigned A, B, C (0: __init__)
    abc_used,     \* the abc_call of the A, B, C the last optimizer evaluation read
    n_minimize,   \* times minimize was invoked in the running call
    evals,        \* cost evaluations of the optimizer in the running call
    steps,        \* the steps of the running (or last) call, in order
    hess0,        \* the ab-initio Hessian as stored at construction
    prev_abc,     \* A, B, C as the previous refresh left them
    refreshes     \* number of refreshes so far

vars == << ics, vterms, hess, contiguous, fcs, A, B, C, pc, fixed, kinit,
           constraints, x, outcome, result, fun_k, fun_out, cvals, calls,
           abc_call, abc_used, n_minimize, evals, steps, hess0, prev_abc,
           refreshes >>

\* model.val.nterms
nterms == Cardinality(DOMAIN vterms)

\* ------------------------------------------------ _update_lstsq_matrices
RECURSIVE AccumulateFrom(_, _, _)
\* for vterm in terms[t:]: hi += vterm.calc_hessian(coords, k=1.0)
AccumulateFrom(hi, terms, t) ==
    IF t > Len(terms) THEN hi
    ELSE AccumulateFrom(MatAdd(hi, calc_hessian(terms[t], 1)), terms, t + 1)

RECURSIVE RowFrom(_, _, _, _)
\* for j in range(j0, i+1): A[i, j] = mss(h[i], h[j]); A[j, i] = A[i, j]
RowFrom(Am, h, i, j) ==
    IF j > i THEN Am
    ELSE LET v == matrix_squared_sum(At(h, i), At(h, j))
             A1 == [Am EXCEPT ![i + 1][j + 1] = v]
             A2 == [A1 EXCEPT ![j + 1][i + 1] = A1[i + 1][j + 1]]
         IN  RowFrom(A2, h, i, j + 1)

RECURSIVE FullRowFrom(_, _, _, _)
\* (variant: the whole row i is filled at step i and nothing is mirrored)
FullRowFrom(Am, h, i, j) ==
    IF j >= Len(h) THEN Am
    ELSE FullRowFrom([Am EXCEPT ![i + 1][j + 1] =
                         matrix_squared_sum(At(h, i), At(h, j))], h, i, j + 1)

FillRowUnmirrored(Am, h, i) == FullRowFrom(Am, h, i, 0)

\* lines 62-64: the inner loop over j
FillRow(Am, h, i) == RowFrom(Am, h, i, 0)

RECURSIVE UpdateFrom(_, _, _, _, _)
\* lines 58-64: the loop over enumerate(sorted(self.system.ics.keys()))
UpdateFrom(st, names, terms, ref, i) ==
    IF i >= Len(names) THEN st
    ELSE LET hi == AccumulateFrom(At(st.h, i), terms[At(names, i)], 1)
             h1 == SetAt(st.h, i, hi)
             B1 == SetAt(st.B, i, matrix_squared_sum(hi, ref))
             A1 == FillRow(st.A, h1, i)
         IN  UpdateFrom([h |-> h1, A |-> A1, B |-> B1], names, terms, ref, i + 1)

\* ref = hess.reshape(...); ref -= ei: the in-place subtraction writes
\* through to the stored buffer when reshape gave a view of it.
SubtractInPlace(buf, isview) ==
    LET ref == MatSub(reshape(buf, ndofs), calc_hessian_ei)
    IN  [ref |-> ref, buf |-> IF isview THEN ravel(ref, ndofs) ELSE buf]

\* The whole of _update_lstsq_matrices: the new A, B, C and stored buffer.
UpdateLstsq(names, terms, n, buf, isview) ==
    LET sub == SubtractInPlace(buf, isview)
        st0 == [h |-> [i \in 1 .. n |-> zeros2(ndofs, ndofs)],
                A |-> zeros2(n, n), B |-> zeros1(n)]
        st == UpdateFrom(st0, SortedICNames(names), terms, sub.ref, 0)
    IN  [A |-> st.A, B |-> st.B, C |-> matrix_squared_sum(sub.ref, sub.ref),
         h |-> st.h, hess |-> sub.buf]

\* ------------------------------------------------------------ constraints
\* BaseConstraint.__init__ via the three subclasses: the fields of a
\* constraint object.  Calling the object gives the dict {type, fun, jac}
\* whose closures read these fields.
FixedValueConstraint(index, value, npars) ==
    [cls |-> "FixedValueConstraint", ctype |-> "eq", index |-> index,
     bound |-> value, npars |-> npars]
LowerLimitConstraint(index, lower, npars) ==
    [cls |-> "LowerLimitConstraint", ctype |-> "ineq", index |-> index,
     bound |-> lower, npars |-> npars]
UpperLimitConstraint(index, upper, npars) ==
    [cls |-> "UpperLimitConstraint", ctype |-> "ineq", index |-> index,
     bound |-> upper, npars |-> npars]

\* the lambdas returned by _fun (k[index] raises IndexError out of range)
FixedValue_fun(c, k) == At(k, c.index) - c.bound
\* (variant: the lower limit with the sign of the upper limit)
LowerLimit_funFlipped(c, k) == c.bound - At(k, c.index)
LowerLimit_fun(c, k) == At(k, c.index) - c.bound
UpperLimit_fun(c, k) == c.bound - At(k, c.index)

\* the 'fun' entry of a constraint dict
ConFun(c, k) ==
    CASE c.cls = "FixedValueConstraint" -> FixedValue_fun(c, k)
      [] c.cls = "LowerLimitConstraint" -> LowerLimit_fun(c, k)
      [] c.cls = "UpperLimitConstraint" -> UpperLimit_fun(c, k)

\* the 'jac' entry: a constant vector of length npars, 0-based index
ConJac(c, k) ==
    [i \in 1 .. c.npars |->
        IF i - 1 # c.index THEN 0
        ELSE IF c.cls = "UpperLimitConstraint" THEN -1 ELSE 1]

\* (variant: the bound rules as a separate if, not chained with elif)
ConstraintsForNoElif(fx, ki, icname, i, n) ==
    LET pin == (~fx.isNone) /\ SplitHead(icname) \in fx.items
        a == IF pin /\ InRange(ki, i)
             THEN << FixedValueConstraint(i, At(ki, i), n) >> ELSE << >>
        b == IF startswith(icname, Dihed)
             THEN << LowerLimitConstraint(i, 0 * kjmol, n),
                     UpperLimitConstraint(i, 200 * kjmol, n) >>
             ELSE << LowerLimitConstraint(i, 0, n) >>
    IN  [err |-> pin /\ ~InRange(ki, i), cons |-> a \o b]

\* (variant: every fixed term pinned to kinit[0])
ConstraintsForFirstValue(fx, ki, icname, i, n) ==
    IF (~fx.isNone) /\ SplitHead(icname) \in fx.items
    THEN IF InRange(ki, i)
         THEN [err |-> FALSE, cons |-> << FixedValueConstraint(i, At(ki, 0), n) >>]
         ELSE [err |-> TRUE, cons |-> << >>]
    ELSE IF startswith(icname, Dihed)
    THEN [err |-> FALSE,
          cons |-> << LowerLimitConstraint(i, 0 * kjmol, n),
                      UpperLimitConstraint(i, 200 * kjmol, n) >>]
    ELSE [err |-> FALSE, cons |-> << LowerLimitConstraint(i, 0, n) >>]

\* One pass of the loop body of _define_constraints for term i: the
\* constraints it appends, or the IndexError of kinit[i].
ConstraintsFor(fx, ki, icname, i, n) ==
    IF (~fx.isNone) /\ SplitHead(icname) \in fx.items
    THEN IF InRange(ki, i)
         THEN [err |-> FALSE, cons |-> << FixedValueConstraint(i, At(ki, i), n) >>]
         ELSE [err |-> TRUE, cons |-> << >>]
    ELSE IF startswith(icname, Dihed)
    THEN [err |-> FALSE,
          cons |-> << LowerLimitConstraint(i, 0 * kjmol, n),
                      UpperLimitConstraint(i, 200 * kjmol, n) >>]
    ELSE [err |-> FALSE, cons |-> << LowerLimitConstraint(i, 0, n) >>]

RECURSIVE DefineFrom(_, _, _, _, _, _)
\* for i in xrange(i, nterms): ...
DefineFrom(fx, ki, terms, n, i, acc) ==
    IF i >= n THEN [err |-> FALSE, cons |-> acc]
    ELSE LET r == ConstraintsFor(fx, ki, At(SortedTermNames(terms), i), i, n)
         IN  IF r.err THEN [err |-> TRUE, cons |-> << >>]
             ELSE DefineFrom(fx, ki, terms, n, i + 1, acc \o r.cons)

\* _define_constraints(fixed, kinit)
define_constraints_of(fx, ki, terms, n) == DefineFrom(fx, ki, terms, n, 0, << >>)

\* -------------------------------------------------------------------- fun
\* np.dot of two vectors of one length, and of a matrix with a vector
dot_vv(u, v) == SumTo([i \in Range(Len(u)) |-> At(u, i) * At(v, i)], Len(u))
dot_mv(M, v) == [i \in 1 .. Len(M) |-> dot_vv(M[i], v)]
\* np.dot raises ValueError unless the contracted lengths agree
Aligned(M, v) == \A i \in 1 .. Len(M) : Len(M[i]) = Len(v)

RECURSIVE DotPrefix(_, _, _)
DotPrefix(u, v, n) == IF n = 0 THEN 0 ELSE DotPrefix(u, v, n - 1) + u[n] * v[n]
Min(a, b) == IF a < b THEN a ELSE b

\* (variant: a fun that contracts over the common prefix instead of raising)
funTruncating(Am, Bv, Cs, k, do_grad) ==
    LET Ak == [i \in 1 .. Len(Am) |-> DotPrefix(Am[i], k, Min(Len(Am[i]), Len(k)))]
    IN  [err |-> FALSE,
         chi2_2 |-> DotPrefix(k, Ak, Min(Len(k), Len(Ak)))
                    - 2 * DotPrefix(Bv, k, Min(Len(Bv), Len(k))) + Cs,
         has_grad |-> do_grad,
         gchi2 |-> IF do_grad THEN [i \in 1 .. Len(Ak) |-> Ak[i] - Bv[i]] ELSE << >>]

\* (variant: a fun whose gradient has the sign of B wrong)
funGradPlusB(Am, Bv, Cs, k, do_grad) ==
    IF ~(Aligned(Am, k) /\ Len(Bv) = Len(k))
    THEN [err |-> TRUE, chi2_2 |-> 0, has_grad |-> FALSE, gchi2 |-> << >>]
    ELSE LET Ak == dot_mv(Am, k)
         IN  [err |-> FALSE,
              chi2_2 |-> dot_vv(k, Ak) - 2 * dot_vv(Bv, k) + Cs,
              has_grad |-> do_grad,
              gchi2 |-> IF do_grad THEN [i \in 1 .. Len(Ak) |-> Ak[i] + Bv[i]]
                        ELSE << >>]

\* HessianFCCost.fun(k, do_grad): chi2_2 is twice the returned chi2
fun(Am, Bv, Cs, k, do_grad) ==
    IF ~(Aligned(Am, k) /\ Len(Bv) = Len(k))
    THEN [err |-> TRUE, chi2_2 |-> 0, has_grad |-> FALSE, gchi2 |-> << >>]
    ELSE LET Ak == dot_mv(Am, k)
         IN  [err |-> FALSE,
              chi2_2 |-> dot_vv(k, Ak) - 2 * dot_vv(Bv, k) + Cs,
              has_grad |-> do_grad,
              gchi2 |-> IF do_grad THEN [i \in 1 .. Len(Ak) |-> Ak[i] - Bv[i]]
                        ELSE << >>]

NoFun == [err |-> FALSE, chi2_2 |-> 0, has_grad |-> FALSE, gchi2 |-> << >>]

\* ------------------------------------------------------------------- Init
Systems == { S \in SUBSET ICNamePool : Cardinality(S) >= 1 /\ Cardinality(S) <= MaxTerms }

\* __init__ on a generated system and model; get_fcs() may list a vector of
\* the wrong length (a mis-wired model).
Init ==
    /\ ics \in Systems
    /\ vterms = [n \in ics |-> TermsOf(n)]
    /\ hess \in RefHessians
    /\ hess0 = hess
    /\ contiguous \in BOOLEAN
    /\ \E m \in (Cardinality(ics) - 1) .. (Cardinality(ics) + 1) :
           fcs \in Vectors(m, FcValues)
    /\ A = zeros2(Cardinality(ics), Cardinality(ics))
    /\ B = zeros1(Cardinality(ics))
    /\ C = 0
    /\ pc = "idle"
    /\ fixed = None
    /\ kinit = << >>
    /\ constraints = << >>
    /\ x = << >>
    /\ outcome = "none"
    /\ result = << >>
    /\ fun_k = << >>
    /\ fun_out = NoFun
    /\ cvals = << >>
    /\ calls = 0
    /\ abc_call = 0
    /\ abc_used = 0
    /\ n_minimize = 0
    /\ evals = 0
    /\ steps = << >>
    /\ prev_abc = << >>
    /\ refreshes = 0

\* --------------------------------------------------------------- estimate
system_vars == << ics, vterms, contiguous, hess0 >>

\* line 109: kinit = self.model.val.get_fcs()
estimate_get_fcs(f) ==
    /\ pc = "idle"
    /\ calls < MaxCalls
    /\ calls' = calls + 1
    /\ fixed' = f
    /\ kinit' = fcs
    /\ pc' = "define_constraints"
    /\ outcome' = "running"
    /\ steps' = << "get_fcs" >>
    /\ constraints' = << >>
    /\ x' = << >>
    /\ result' = << >>
    /\ fun_k' = << >>
    /\ fun_out' = NoFun
    /\ cvals' = << >>
    /\ n_minimize' = 0
    /\ evals' = 0
    /\ UNCHANGED << system_vars, hess, fcs, A, B, C, abc_call, abc_used,
                    prev_abc, refreshes >>

\* line 110: constraints = self._define_constraints(fixed, kinit)
estimate_define_constraints ==
    /\ pc = "define_constraints"
    /\ LET r == define_constraints_of(fixed, kinit, vterms, nterms)
       IN  /\ constraints' = r.cons
           /\ pc' = IF r.err THEN "idle" ELSE "update_lstsq_matrices"
           /\ outcome' = IF r.err THEN "error" ELSE outcome
           /\ steps' = Append(steps, "define_constraints")
    /\ UNCHANGED << system_vars, hess, fcs, A, B, C, fixed, kinit, x, result,
                    fun_k, fun_out, cvals, calls, abc_call, abc_used,
                    n_minimize, evals, prev_abc, refreshes >>

\* (variant of line 111: A, B, C are recomputed in the first call only)
estimate_update_first_call_only ==
    /\ pc = "update_lstsq_matrices"
    /\ LET u == UpdateLstsq(ics, vterms, nterms, hess, contiguous)
       IN  IF refreshes = 0
           THEN /\ A' = u.A /\ B' = u.B /\ C' = u.C /\ hess' = u.hess
                /\ abc_call' = calls
                /\ refreshes' = refreshes + 1
           ELSE UNCHANGED << A, B, C, hess, abc_call, refreshes >>
    /\ prev_abc' = prev_abc
    /\ pc' = "minimize"
    /\ steps' = Append(steps, "update_lstsq_matrices")
    /\ UNCHANGED << system_vars, fcs, fixed, kinit, constraints, x, outcome,
                    result, fun_k, fun_out, cvals, calls, abc_used,
                    n_minimize, evals >>

\* line 111: self._update_lstsq_matrices()
estimate_update_lstsq_matrices ==
    /\ pc = "update_lstsq_matrices"
    /\ LET u == UpdateLstsq(ics, vterms, nterms, hess, contiguous)
       IN  /\ A' = u.A
           /\ B' = u.B
           /\ C' = u.C
           /\ hess' = u.hess
    /\ prev_abc' = IF refreshes = 0 THEN << >> ELSE << A, B, C >>
    /\ refreshes' = refreshes + 1
    /\ abc_call' = calls
    /\ pc' = "minimize"
    /\ steps' = Append(steps, "update_lstsq_matrices")
    /\ UNCHANGED << system_vars, fcs, fixed, kinit, constraints, x, outcome,
                    result, fun_k, fun_out, cvals, calls, abc_used,
                    n_minimize, evals >>

\* What the optimizer does at a point k: the constraint functions, then the
\* objective; either may raise.
ConErr(cons, k) == \E c \in 1 .. Len(cons) : ~InRange(k, cons[c].index)
ConVals(cons, k) == [c \in 1 .. Len(cons) |-> ConFun(cons[c], k)]

Evaluate(k) ==
    LET cerr == ConErr(constraints, k)
        f == IF cerr THEN NoFun ELSE fun(A, B, C, k, FALSE)
        err == cerr \/ f.err
    IN  /\ x' = k
        /\ cvals' = IF err THEN << >> ELSE ConVals(constraints, k)
        /\ fun_k' = IF cerr THEN fun_k ELSE k
        /\ fun_out' = IF cerr THEN fun_out ELSE f
        /\ abc_used' = IF cerr THEN abc_used ELSE abc_call
        /\ evals' = IF cerr THEN evals ELSE evals + 1
        /\ pc' = IF err THEN "idle" ELSE "iterate"
        /\ outcome' = IF err THEN "error" ELSE outcome

\* lines 112-115: minimize(self.fun, kinit, ...) starts at kinit
minimize_start ==
    /\ pc = "minimize"
    /\ n_minimize' = n_minimize + 1
    /\ steps' = Append(steps, "minimize")
    /\ Evaluate(kinit)
    /\ UNCHANGED << system_vars, hess, fcs, A, B, C, fixed, kinit, constraints,
                    result, calls, abc_call, prev_abc, refreshes >>

\* the optimizer moves one coordinate of its point (as its forward-difference
\* gradient does; a general step is several such moves) and evaluates there
minimize_iterate(i, v) ==
    /\ pc = "iterate"
    /\ evals < MaxEvals
    /\ Evaluate(SetAt(x, i, v))
    /\ UNCHANGED << system_vars, hess, fcs, A, B, C, fixed, kinit, constraints,
                    result, calls, abc_call, n_minimize, steps, prev_abc,
                    refreshes >>

\* line 116: return result.x
estimate_return ==
    /\ pc = "iterate"
    /\ result' = x
    /\ outcome' = "returned"
    /\ pc' = "idle"
    /\ steps' = Append(steps, "return")
    /\ UNCHANGED << system_vars, hess, fcs, A, B, C, fixed, kinit, constraints,
                    x, fun_k, fun_out, cvals, calls, abc_call, abc_used,
                    n_minimize, evals, prev_abc, refreshes >>

\* a caller evaluates the cost and its gradient itself, between estimate calls
fun_call(k) ==
    /\ pc = "idle"
    /\ fun_k' = k
    /\ fun_out' = fun(A, B, C, k, TRUE)
    /\ UNCHANGED << system_vars, hess, fcs, A, B, C, pc, fixed, kinit,
                    constraints, x, outcome, result, cvals, calls, abc_call,
                    abc_used, n_minimize, evals, steps, prev_abc, refreshes >>

\* the vectors a caller passes: the Terms' force constants (of whatever
\* length get_fcs lists them) and the point the last estimate returned
CallerPoints == ({fcs} \cup {result}) \ {<< >>}

Next ==
    \/ \E f \in FixedChoices : estimate_get_fcs(f)
    \/ estimate_define_constraints
    \/ estimate_update_lstsq_matrices
    \/ minimize_start
    \/ \E i \in Range(Len(kinit)), v \in KValues : minimize_iterate(i, v)
    \/ estimate_return
    \/ \E k \in CallerPoints : fun_call(k)

Spec == Init /\ [][Next]_vars

\* ------------------------------------------------------ claim vocabulary
InSteps(s) == \E i \in 1 .. Len(steps) : steps[i] = s
\* the running or last call got past _define_constraints without an error
ConstraintsBuilt == InSteps("define_constraints") /\ (outcome = "error" => InSteps("minimize"))
Refreshed == InSteps("update_lstsq_matrices")
\* _update_lstsq_matrices has just returned
JustRefreshed == pc = "minimize"

\* position of a name in the lexicographic order of the names
Rank(n) == Cardinality({ m \in ics : StrLess(m, n) })
NameAt(i) == CHOOSE n \in ics : Rank(n) = i

\* the fully accumulated unit Hessian of an internal coordinate
FullUnitHessian(n) ==
    [p \in Dofs |-> [q \in Dofs |->
        SumTo([t \in Range(Len(vterms[n])) |-> UnitHessian(vterms[n][t + 1])[p][q]],
              Len(vterms[n]))]]
Frobenius(X, Y) ==
    SumTo([e \in Range(ndofs * ndofs) |->
              X[(e \div ndofs) + 1][(e % ndofs) + 1] * Y[(e \div ndofs) + 1][(e % ndofs) + 1]],
          ndofs * ndofs)
\* the residual Hessian the last refresh worked with
ResidualUsed ==
    IF contiguous THEN reshape(hess, ndofs)
    ELSE MatSub(reshape(hess, ndofs), calc_hessian_ei)

ConsAt(i) == { c \in 1 .. Len(constraints) : constraints[c].index = i }
Pinned(i) == (~fixed.isNone) /\ SplitHead(NameAt(i)) \in fixed.items
IsDihedral(i) == startswith(NameAt(i), Dihed)
Satisfies(cons, k) ==
    \A c \in 1 .. Len(cons) :
        IF cons[c].ctype = "eq" THEN ConFun(cons[c], k) = 0
        ELSE ConFun(cons[c], k) >= 0

\* ------------------------------------------------------------------ claims

\* C1: refresh is idempotent: a refresh run again on the same collaborator
\* inputs leaves the same A, B and C as the refresh before it (stated for
\* the models whose get_fcs lists nterms values).
C1_RefreshIdempotent ==
    (refreshes >= 2 /\ Len(fcs) = nterms) => prev_abc = << A, B, C >>

\* C2: nothing but the Terms' force constants is carried from one estimate
\* call to the next: the stored reference ab-initio Hessian stays what it was
\* before the first call (stated for the models whose get_fcs lists nterms
\* values).
C2_ReferenceHessianKept ==
    Len(fcs) = nterms => hess = hess0

\* C3: after every refresh A is exactly symmetric and every entry, in both
\* triangles, is the Frobenius inner product of the fully accumulated unit
\* Hessians of the two terms.
C3_ASymmetricGram ==
    JustRefreshed =>
        \A i, j \in Range(nterms) :
            /\ A[i + 1][j + 1] = A[j + 1][i + 1]
            /\ A[i + 1][j + 1] =
                   Frobenius(FullUnitHessian(NameAt(i)), FullUnitHessian(NameAt(j)))

C3_Witness ==
    /\ JustRefreshed
    /\ calls = 2
    /\ nterms >= 2
    /\ \E i, j \in Range(nterms) : i < j /\ A[i + 1][j + 1] # 0

\* C4: every term index is constrained by exactly one rule, fixed before
\* dihedral before generic: one equality for a term of a fixed kind, else the
\* two inequalities k[i] >= 0 and k[i] <= 200 kjmol for a dihedral, else the
\* one inequality k[i] >= 0; no term is left out, and without a fixed set
\* there is no equality.
C4_OneRulePerTerm ==
    ConstraintsBuilt =>
        /\ \A c \in 1 .. Len(constraints) : constraints[c].index \in Range(nterms)
        /\ \A i \in Range(nterms) :
             LET cs == { constraints[c] : c \in ConsAt(i) }
             IN  IF Pinned(i)
                 THEN /\ Cardinality(ConsAt(i)) = 1
                      /\ \A c \in cs : c.ctype = "eq" /\ c.cls = "FixedValueConstraint"
                 ELSE IF IsDihedral(i)
                 THEN /\ Cardinality(ConsAt(i)) = 2
                      /\ \A c \in cs : c.ctype = "ineq"
                      /\ \E c \in cs : c.cls = "LowerLimitConstraint" /\ c.bound = 0
                      /\ \E c \in cs : c.cls = "UpperLimitConstraint" /\ c.bound = 200 * kjmol
                 ELSE /\ Cardinality(ConsAt(i)) = 1
                      /\ \A c \in cs : /\ c.ctype = "ineq"
                                       /\ c.cls = "LowerLimitConstraint"
                                       /\ c.bound = 0
        /\ (fixed.isNone \/ fixed.items = {}) =>
               \A c \in 1 .. Len(constraints) : constraints[c].ctype # "eq"

C4_Witness ==
    /\ ConstraintsBuilt
    /\ \E i, j \in Range(nterms) :
          /\ Pinned(i) /\ IsDihedral(i)
          /\ ~Pinned(j) /\ IsDihedral(j)

\* C5: a term of a fixed kind is held at the force constant read at the start
\* of the call: its equality constraint is 0 exactly at k[i] = kinit[i], with
\* the Jacobian one-hot +1 at i, so a returned point that satisfies the
\* constraints has result[i] = kinit[i]; a term of no fixed kind is not pinned.
C5_PinnedAtInitialValue ==
    ConstraintsBuilt =>
        \A i \in Range(nterms) :
            IF Pinned(i)
            THEN /\ \E c \in ConsAt(i) : constraints[c].ctype = "eq"
                 /\ \A c \in ConsAt(i) :
                      /\ \A v \in KValues \cup FcValues, j \in Range(nterms) :
                            LET k == SetAt(SetAt(kinit, j, v), i, v)
                            IN  (ConFun(constraints[c], k) = 0) <=> (v = At(fcs, i))
                      /\ ConJac(constraints[c], kinit) =
                            [p \in 1 .. nterms |-> IF p - 1 = i THEN 1 ELSE 0]
                 /\ (outcome = "returned" /\ Satisfies(constraints, result))
                        => At(result, i) = At(fcs, i)
            ELSE \A c \in ConsAt(i) : constraints[c].ctype # "eq"

C5_Witness ==
    /\ outcome = "returned"
    /\ Satisfies(constraints, result)
    /\ \E i, j \in Range(nterms) :
          Pinned(i) /\ ~Pinned(j) /\ At(result, j) # At(kinit, j)

\* C6: a parameter vector whose length is not nterms never yields a cost
\* value or a result vector: fun raises, and an estimate call that read such
\* a kinit ends in an error.
C6_MismatchFails ==
    /\ (fun_k # << >> /\ Len(fun_k) # nterms) => fun_out.err
    /\ (calls >= 1 /\ Len(kinit) # nterms) =>
          /\ outcome \in {"running", "error"}
          /\ pc # "iterate"
          /\ result = << >>
          /\ (pc = "idle" => outcome = "error")

C6_Witness ==
    /\ outcome = "error"
    /\ Len(kinit) = nterms + 1
    /\ fun_k = kinit
    /\ fun_out.err

\* C7: a name has one index everywhere: its rank in the lexicographic order
\* of the names is the row and column of its unit Hessian in A and B and the
\* index at which the constraint builder classifies and constrains it.
C7_OneIndexMapping ==
    JustRefreshed =>
        \A n \in ics :
            LET p == Rank(n) IN
            /\ At(SortedTermNames(vterms), p) = n
            /\ B[p + 1] = Frobenius(FullUnitHessian(n), ResidualUsed)
            /\ A[p + 1][p + 1] = Frobenius(FullUnitHessian(n), FullUnitHessian(n))
            /\ ConsAt(p) # {}
            /\ \A c \in ConsAt(p) :
                 constraints[c].cls =
                    IF (~fixed.isNone) /\ SplitHead(n) \in fixed.items
                    THEN "FixedValueConstraint"
                    ELSE IF startswith(n, Dihed) /\ constraints[c].bound # 0
                    THEN "UpperLimitConstraint"
                    ELSE "LowerLimitConstraint"

C7_Witness ==
    /\ JustRefreshed
    /\ nterms >= 2
    /\ A[1][1] # A[2][2]
    /\ B[1] # B[2]
    /\ \E c, d \in 1 .. Len(constraints) :
          constraints[c].ctype = "eq" /\ constraints[d].cls = "UpperLimitConstraint"

QuadForm2(k) ==
    SumTo([e \in Range(nterms * nterms) |->
              At(k, e \div nterms) * A[(e \div nterms) + 1][(e % nterms) + 1]
                  * At(k, e % nterms)], nterms * nterms)
    - 2 * SumTo([i \in Range(nterms) |-> B[i + 1] * At(k, i)], nterms)
    + C
Shift(k, i, d) == [p \in 1 .. Len(k) |-> IF p - 1 = i THEN k[p] + d ELSE k[p]]

\* the last call of fun gave the cost, and the gradient when asked for it
FunValueRight ==
    (fun_k # << >> /\ ~fun_out.err) =>
        /\ fun_out.chi2_2 = QuadForm2(fun_k)
        /\ fun_out.has_grad =>
              \A i \in Range(nterms) :
                  /\ At(fun_out.gchi2, i) =
                        SumTo([j \in Range(nterms) |-> A[i + 1][j + 1] * At(fun_k, j)],
                              nterms) - B[i + 1]
                  /\ QuadForm2(Shift(fun_k, i, 1)) - QuadForm2(Shift(fun_k, i, -1))
                        = 4 * At(fun_out.gchi2, i)
\* a step that calls fun changes none of A, B, C and hands k back as it was
FunStepFrame ==
    (fun_k' # fun_k \/ fun_out' # fun_out) =>
        /\ UNCHANGED << A, B, C >>
        /\ (pc' = "iterate" => x' = fun_k')

\* C9: fun returns chi2 = 1/2 k^T A k - B^T k + 1/2 C of the stored A, B, C
\* and, when asked, the gradient A k - B, which is the central difference of
\* the cost at k; evaluating it changes none of A, B, C, k.
C9_CostPure ==
    [] FunValueRight /\ [][FunStepFrame]_vars

C9_Witness ==
    /\ Refreshed
    /\ fun_out.has_grad
    /\ ~fun_out.err
    /\ \E i \in Range(nterms) : At(fun_k, i) # 0
    /\ \E i \in Range(nterms) : At(fun_out.gchi2, i) > 0
    /\ \E i \in Range(nterms) : At(fun_out.gchi2, i) < 0

IsPrefix(s, t) == Len(s) <= Len(t) /\ SubSeq(t, 1, Len(s)) = s

\* C10: in every estimate call kinit is read, then the constraints are built
\* from it, then A, B, C are refreshed, and then the optimizer is invoked
\* once, starting at kinit; every cost evaluation of the optimizer reads the
\* A, B, C refreshed in that call, and the returned point is the optimizer's
\* and is not written into the Terms' force constants.
C10_EstimateOrder ==
    calls >= 1 =>
        /\ IsPrefix(steps, << "get_fcs", "define_constraints",
                              "update_lstsq_matrices", "minimize", "return" >>)
        /\ kinit = fcs
        /\ n_minimize <= 1
        /\ InSteps("minimize") =>
              /\ n_minimize = 1
              /\ abc_call = calls
              /\ constraints = define_constraints_of(fixed, kinit, vterms, nterms).cons
        /\ ~InSteps("update_lstsq_matrices") => abc_call < calls
        /\ evals >= 1 => abc_used = calls
        /\ pc = "iterate" => fun_k = x
        /\ (pc = "iterate" /\ evals = 1) => x = kinit
        /\ outcome = "returned" => result = x /\ evals >= 1

C10_Witness ==
    /\ calls = 2
    /\ outcome = "returned"
    /\ result # kinit
    /\ evals = 2

====
